---- MODULE Spec2Model ----
(***************************************************************************)
(* Model of the automaton engine of automata-like-programming:            *)
(*   - Automaton::new / Automaton::run            (src/src/automaton.rs)   *)
(*   - SimpleStateImplementation and its connections                       *)
(*                                  (src/src/simple_impl/simple_state.rs)  *)
(*   - the custom states of the tests and of the crate documentation       *)
(*                          (src/src/automaton.rs tests, src/src/lib.rs)   *)
(* State nodes are addressed by handles (the Rc pointers); identifiers are *)
(* the values returned by get_id_owned.  Text buffers are sequences of the *)
(* pieces pushed onto them.                                                *)
(***************************************************************************)
EXTENDS Integers, Sequences, FiniteSets, TLC

\* ------------------------------------------------------------------ bounds
\* Connections registered over the whole graph.
MaxConns == 2
\* Keys a context's key source yields before it signals exhaustion.
MaxKeys == 2
\* Invocations of run on one engine.
MaxRuns == 2
\* Visits followed in a run whose key source never signals exhaustion.
MaxVisits == 3
\* Length of the texts searched for the pattern "ab".
MaxText == 4

\* ------------------------------------------------------------- value sets
\* Keys (u8 in the tests of simple_state.rs).
Keys == {1, 2}
\* The error value a failing action returns for key k (the caller-defined
\* error type E; the action builds its error from the key).
ErrOf(k) == IF k = 1 THEN "e1" ELSE "e2"
Errors == {ErrOf(k) : k \in Keys}
\* The text an appending action pushes for key k.
TextOf(k) == IF k = 1 THEN "Hello" ELSE "world!"
NoErr == "ok"
NoNode == "none"
NoKey == 0

\* Handles of the edge-list states (SimpleStateImplementation).
SimpleNodes == {"s1", "s2"}
\* Handles of the custom states: TestNodeHello / TestNodeWorld and the
\* documentation's TestState instances Foo and Bar.
CustomNodes == {"hello", "world", "foo", "bar"}
Nodes == SimpleNodes \cup CustomNodes
\* The states a graph initializer returns as the start state: the first
\* edge-list state, or any custom state.
StartNodes == {"s1"} \cup CustomNodes

\* The custom states as constructed in automaton_2_nodes_works and in the
\* crate documentation: identifier, pushed text, next_state, and whether the
\* state answers ProcessEnded (TestNodeWorld) instead of looking at next_state.
CustomState(n) ==
    CASE n = "hello" -> [id |-> 1, text |-> "Hello", next_state |-> "world", ends |-> FALSE]
      [] n = "world" -> [id |-> 2, text |-> " world", next_state |-> NoNode, ends |-> TRUE]
      [] n = "foo"   -> [id |-> 1, text |-> "Foo", next_state |-> "bar", ends |-> FALSE]
      [] n = "bar"   -> [id |-> 2, text |-> "Bar", next_state |-> NoNode, ends |-> FALSE]

\* SimpleStateImplementation::new(id): the identifier each edge-list state
\* was created with.
SimpleId(n) == IF n = "s1" THEN 1 ELSE 2

\* ---------------------------------------- the "ab" pattern example's values
\* The characters of a text: 'a', 'b' and any other character.
CharA == 1
CharB == 2
CharOther == 3
Chars == {CharA, CharB, CharOther}
\* The text of the example, "aabbacacaabab".
DocText ==
    <<CharA, CharA, CharB, CharB, CharA, CharOther, CharA, CharOther, CharA,
      CharA, CharB, CharA, CharB>>
\* A key (usize, char) of the example, as one number, and its two parts.
Key(i, c) == 4 * i + c
KeyIndex(k) == k \div 4
KeyChar(k) == k % 4
AbKeys == {Key(i, c) : i \in 0..(Len(DocText) + MaxText), c \in Chars}
\* The three states of the example, by the names of the let bindings.
AbNodes == {"non_match_state", "a_state", "b_state"}
\* SimpleStateImplementation::new(0), new(1), new(2)
AbId(n) ==
    CASE n = "non_match_state" -> 0
      [] n = "a_state"         -> 1
      [] n = "b_state"         -> 2

\* Mutant of CharMatcher: the reversed flag is ignored.
CharMatcherPlain(c, reversed) == {k \in AbKeys : KeyChar(k) = c}

\* char_matcher(c, reversed): move |k| (k.1 == c) ^ reversed, by the set of
\* keys it accepts.
CharMatcher(c, reversed) == {k \in AbKeys : (KeyChar(k) = c) # reversed}

\* get_id_owned
GetIdOwned(n) ==
    IF n \in SimpleNodes THEN SimpleId(n)
    ELSE IF n \in AbNodes THEN AbId(n)
    ELSE CustomState(n).id

Ids == {GetIdOwned(n) : n \in Nodes}

\* Matchers, by the set of keys they accept: |k| k == &1 (as in the tests)
\* and a matcher accepting every key.
Matchers == {{1}, Keys}

\* exec_function values, by name: "append" pushes a text onto the buffer and
\* succeeds (the closures of the tests), "do_nothing" is the action of
\* new_no_action, "fail" returns an error and leaves the context alone.
DoNothingFn == "do_nothing"
ExecFunctions == {"append", DoNothingFn, "fail"}
\* A caller's own closure |_, _| Result::Ok(()), handed to new.
NoopOkFn == "noop_ok"

\* SimpleInterStateConnection::new
NewConnection(m, f, next) == [matcher |-> m, exec_function |-> f, connected_state |-> next]
\* SimpleInterStateConnection::new_no_action
NewNoAction(m, next) == NewConnection(m, DoNothingFn, next)

Connections ==
    {NewConnection(m, f, t) :
        m \in Matchers, f \in ExecFunctions \ {DoNothingFn}, t \in SimpleNodes}
      \cup {NewNoAction(m, t) : m \in Matchers, t \in SimpleNodes}

RECURSIVE SeqsUpTo(_, _)
SeqsUpTo(S, n) ==
    IF n = 0 THEN {<<>>}
    ELSE LET shorter == SeqsUpTo(S, n - 1)
         IN shorter \cup {Append(s, x) : s \in {t \in shorter : Len(t) = n - 1}, x \in S}

\* ------------------------------------------------------------------ state
VARIABLES
    phase,          \* "init": inside the graph initializer; "idle"; "running";
                    \* "panicked": a RefCell borrow failed
    next_states,    \* SimpleStateImplementation.next_states of each edge-list state
    mut_borrowed,   \* the states whose RefCell holds a live borrow_mut guard
    start_state,    \* Automaton.start_state
    current_state,  \* run's local current_state
    contexts,       \* the caller's contexts, one per run; the last is the one
                    \* handed to the run in progress
    result,         \* the value run returned (tag "None" while undetermined)
    runs,           \* invocations of run so far
    init_calls,     \* invocations of the graph initializer so far
    trace,          \* history: one record per visit of the latest run
    done            \* history: one record per finished run

vars == <<phase, next_states, mut_borrowed, start_state, current_state, contexts,
          result, runs, init_calls, trace, done>>

\* ---------------------------------------------------------------- context
\* TestData::new: a fresh context over the keys its source will yield.
NewData(keys) == [kind |-> "TestData", keys |-> keys, current |-> 0, buffer |-> <<>>]

\* A fresh context whose key source never signals exhaustion: it yields the
\* keys of a non-empty list over and over.
NewEndlessData(keys) == [kind |-> "Endless", keys |-> keys, current |-> 0, buffer |-> <<>>]

\* The key a source hands out at position pos (counted from 0).
KeyAt(d, pos) == IF d.kind = "Endless" THEN d.keys[(pos % Len(d.keys)) + 1] ELSE d.keys[pos + 1]

\* Mutant of NextKey: the key is read but the position does not move on.
NextKeyPeek(d) ==
    IF d.kind = "TestData" /\ d.current >= Len(d.keys)
    THEN [key |-> NoKey, data |-> d]
    ELSE [key |-> KeyAt(d, d.current), data |-> d]

\* TextMatching::new(text)
NewTextMatching(text) == [kind |-> "TextMatching", text |-> text, matches |-> <<>>, iter |-> 0]

\* TextMatching::add_match
AddMatch(d, index) == [d EXCEPT !.matches = Append(@, index)]

\* TextMatching::next_key: none when iter has reached the text's length;
\* otherwise iter moves on by one and the key is (iter - 1, the character at
\* position iter counted from 0), or none (by the ? operator) when the text
\* has no character there.
TextMatchingNextKey(d) ==
    IF d.iter >= Len(d.text)
    THEN [key |-> NoKey, data |-> d]
    ELSE LET d2 == [d EXCEPT !.iter = @ + 1]
         IN IF d2.iter >= Len(d.text)
            THEN [key |-> NoKey, data |-> d2]
            ELSE [key |-> Key(d2.iter - 1, d.text[d2.iter + 1]), data |-> d2]

\* data.next_key().  TestData::next_key: none once the source is exhausted,
\* otherwise the key at the current position, and the position moves on by
\* one.
NextKey(d) ==
    IF d.kind = "TextMatching" THEN TextMatchingNextKey(d)
    ELSE IF d.kind = "TestData" /\ d.current >= Len(d.keys)
    THEN [key |-> NoKey, data |-> d]
    ELSE [key |-> KeyAt(d, d.current), data |-> [d EXCEPT !.current = @ + 1]]

\* TestData::append_text / String::push_str
AppendText(d, t) == [d EXCEPT !.buffer = Append(@, t)]

\* Mutant of CallExec: do_nothing reports a failure.
CallExecNoActionFails(f, d, k) ==
    CASE f = "add_match"  -> [data |-> AddMatch(d, KeyIndex(k)), err |-> NoErr]
      [] f = "append"     -> [data |-> AppendText(d, TextOf(k)), err |-> NoErr]
      [] f = "do_nothing" -> [data |-> d, err |-> ErrOf(k)]
      [] f = "noop_ok"    -> [data |-> d, err |-> NoErr]
      [] f = "fail"       -> [data |-> d, err |-> ErrOf(k)]

\* Calling a connection's exec_function on (data, key): Result<(), E>, with
\* the context as the call leaves it.
CallExec(f, d, k) ==
    CASE f = "add_match"  -> [data |-> AddMatch(d, KeyIndex(k)), err |-> NoErr]
      [] f = "append"     -> [data |-> AppendText(d, TextOf(k)), err |-> NoErr]
      [] f = "do_nothing" -> [data |-> d, err |-> NoErr]
      [] f = "noop_ok"    -> [data |-> d, err |-> NoErr]
      [] f = "fail"       -> [data |-> d, err |-> ErrOf(k)]

\* ------------------------------------------------------ transition result
Continue(n) == [tag |-> "Continue", next |-> n, err |-> NoErr]
ProcessEnded == [tag |-> "ProcessEnded", next |-> NoNode, err |-> NoErr]
NotFound == [tag |-> "NotFound", next |-> NoNode, err |-> NoErr]
Err(e) == [tag |-> "Err", next |-> NoNode, err |-> e]

\* -------------------------------------------------------------- run result
Undetermined == [tag |-> "None", id |-> 0, err |-> NoErr]
EmptyIter(id) == [tag |-> "EmptyIter", id |-> id, err |-> NoErr]
CouldNotFindNextState(id) == [tag |-> "CouldNotFindNextState", id |-> id, err |-> NoErr]
Error(e) == [tag |-> "Error", id |-> 0, err |-> e]

\* Mutant of IsError: a run that found no next state counts as an error too.
IsErrorOrNotFound(r) == r.tag \in {"Error", "CouldNotFindNextState"}

\* The predicates of AutomatonResult: matches!(self, <variant>(_)).
IsEmptyIter(r) == r.tag = "EmptyIter"
IsCouldNotFindNextState(r) == r.tag = "CouldNotFindNextState"
IsError(r) == r.tag = "Error"

\* ------------------------------------------------- the states' visit code
\* Mutant of FirstMatch: when no matcher accepts the key the last connection
\* is taken as a default.
RECURSIVE FirstMatchFallback(_, _, _)
FirstMatchFallback(conns, i, k) ==
    IF i > Len(conns) THEN Len(conns)
    ELSE IF k \in conns[i].matcher THEN i
    ELSE FirstMatchFallback(conns, i + 1, k)

\* Mutant of FirstMatch: the loop does not stop at the first match, the last
\* matching connection wins.
RECURSIVE FirstMatchLast(_, _, _)
FirstMatchLast(conns, i, k) ==
    IF i > Len(conns) THEN 0
    ELSE LET later == FirstMatchLast(conns, i + 1, k)
         IN IF later # 0 THEN later
            ELSE IF k \in conns[i].matcher THEN i ELSE 0

\* The for loop of execute_next_connection: the position of the first
\* connection, from position i on, whose matcher accepts k (0 when none does).
RECURSIVE FirstMatch(_, _, _)
FirstMatch(conns, i, k) ==
    IF i > Len(conns) THEN 0
    ELSE IF k \in conns[i].matcher THEN i
    ELSE FirstMatch(conns, i + 1, k)

\* The context after the actions of every connection of conns from position
\* j on that accepts k.
RECURSIVE ExecAllFrom(_, _, _, _)
ExecAllFrom(conns, j, d, k) ==
    IF j > Len(conns) THEN d
    ELSE IF k \in conns[j].matcher
    THEN ExecAllFrom(conns, j + 1, CallExec(conns[j].exec_function, d, k).data, k)
    ELSE ExecAllFrom(conns, j + 1, d, k)

\* Mutant of SimpleExecuteNextConnection: the loop does not return at the
\* first match, so the action of every accepting connection runs.
SimpleExecuteRunsAll(conns, d) ==
    LET nk == NextKey(d)
        i == FirstMatch(conns, 1, nk.key)
        ex == CallExec(conns[i].exec_function, nk.data, nk.key)
        n == Cardinality({j \in 1..Len(conns) : nk.key \in conns[j].matcher})
    IN IF nk.key = NoKey
       THEN [ret |-> ProcessEnded, data |-> nk.data, key |-> NoKey, pulls |-> 1,
             scanned |-> 0, taken |-> 0, calls |-> 0,
             arg |-> NoKey]
       ELSE IF i = 0
       THEN [ret |-> NotFound, data |-> nk.data, key |-> nk.key, pulls |-> 1,
             scanned |-> Len(conns), taken |-> 0, calls |-> 0,
             arg |-> NoKey]
       ELSE IF ex.err # NoErr
       THEN [ret |-> Err(ex.err), data |-> ex.data, key |-> nk.key, pulls |-> 1,
             scanned |-> i, taken |-> i, calls |-> 1,
             arg |-> nk.key]
       ELSE [ret |-> Continue(conns[i].connected_state),
             data |-> ExecAllFrom(conns, i, nk.data, nk.key),
             key |-> nk.key, pulls |-> 1, scanned |-> Len(conns), taken |-> i,
             calls |-> n,
             arg |-> nk.key]

\* Mutant of SimpleExecuteNextConnection: the action's result is dropped
\* (no ? on the call), so a failing action still leads to Continue.
SimpleExecuteIgnoresErr(conns, d) ==
    LET nk == NextKey(d)
        i == FirstMatch(conns, 1, nk.key)
        ex == CallExec(conns[i].exec_function, nk.data, nk.key)
    IN IF nk.key = NoKey
       THEN [ret |-> ProcessEnded, data |-> nk.data, key |-> NoKey, pulls |-> 1,
             scanned |-> 0, taken |-> 0, calls |-> 0,
             arg |-> NoKey]
       ELSE IF i = 0
       THEN [ret |-> NotFound, data |-> nk.data, key |-> nk.key, pulls |-> 1,
             scanned |-> Len(conns), taken |-> 0, calls |-> 0,
             arg |-> NoKey]
       ELSE [ret |-> Continue(conns[i].connected_state), data |-> ex.data,
             key |-> nk.key, pulls |-> 1, scanned |-> i, taken |-> i, calls |-> 1,
             arg |-> nk.key]

\* Mutant of SimpleExecuteNextConnection: the action is handed the position
\* of the connection in place of the key.
SimpleExecutePassesPosition(conns, d) ==
    LET nk == NextKey(d)
        i == FirstMatch(conns, 1, nk.key)
        ex == CallExec(conns[i].exec_function, nk.data, i)
    IN IF nk.key = NoKey
       THEN [ret |-> ProcessEnded, data |-> nk.data, key |-> NoKey, pulls |-> 1,
             scanned |-> 0, taken |-> 0, calls |-> 0, arg |-> NoKey]
       ELSE IF i = 0
       THEN [ret |-> NotFound, data |-> nk.data, key |-> nk.key, pulls |-> 1,
             scanned |-> Len(conns), taken |-> 0, calls |-> 0, arg |-> NoKey]
       ELSE IF ex.err # NoErr
       THEN [ret |-> Err(ex.err), data |-> ex.data, key |-> nk.key, pulls |-> 1,
             scanned |-> i, taken |-> i, calls |-> 1, arg |-> i]
       ELSE [ret |-> Continue(conns[i].connected_state), data |-> ex.data,
             key |-> nk.key, pulls |-> 1, scanned |-> i, taken |-> i, calls |-> 1,
             arg |-> i]

\* Mutant of SimpleExecuteNextConnection: a key that no connection accepts,
\* or whose action fails, is handed back to the key source.
SimpleExecutePutsBack(conns, d) ==
    LET nk == NextKey(d)
        i == FirstMatch(conns, 1, nk.key)
        ex == CallExec(conns[i].exec_function, nk.data, nk.key)
    IN IF nk.key = NoKey
       THEN [ret |-> ProcessEnded, data |-> nk.data, key |-> NoKey, pulls |-> 1,
             scanned |-> 0, taken |-> 0, calls |-> 0,
             arg |-> NoKey]
       ELSE IF i = 0
       THEN [ret |-> NotFound, data |-> d, key |-> nk.key, pulls |-> 1,
             scanned |-> Len(conns), taken |-> 0, calls |-> 0,
             arg |-> NoKey]
       ELSE IF ex.err # NoErr
       THEN [ret |-> Err(ex.err), data |-> d, key |-> nk.key, pulls |-> 1,
             scanned |-> i, taken |-> i, calls |-> 1,
             arg |-> nk.key]
       ELSE [ret |-> Continue(conns[i].connected_state), data |-> ex.data,
             key |-> nk.key, pulls |-> 1, scanned |-> i, taken |-> i, calls |-> 1,
             arg |-> nk.key]

\* Mutant of SimpleExecuteNextConnection: when the action of the first
\* accepting connection fails, the scan goes on with the connections
\* registered after it.
SimpleExecuteScansOn(conns, d) ==
    LET nk == NextKey(d)
        i == FirstMatch(conns, 1, nk.key)
        ex == CallExec(conns[i].exec_function, nk.data, nk.key)
        j == FirstMatch(conns, i + 1, nk.key)
        ex2 == CallExec(conns[j].exec_function, ex.data, nk.key)
    IN IF nk.key = NoKey
       THEN [ret |-> ProcessEnded, data |-> nk.data, key |-> NoKey, pulls |-> 1,
             scanned |-> 0, taken |-> 0, calls |-> 0,
             arg |-> NoKey]
       ELSE IF i = 0
       THEN [ret |-> NotFound, data |-> nk.data, key |-> nk.key, pulls |-> 1,
             scanned |-> Len(conns), taken |-> 0, calls |-> 0,
             arg |-> NoKey]
       ELSE IF ex.err # NoErr /\ j = 0
       THEN [ret |-> Err(ex.err), data |-> ex.data, key |-> nk.key, pulls |-> 1,
             scanned |-> Len(conns), taken |-> i, calls |-> 1,
             arg |-> nk.key]
       ELSE IF ex.err # NoErr /\ ex2.err # NoErr
       THEN [ret |-> Err(ex2.err), data |-> ex2.data, key |-> nk.key, pulls |-> 1,
             scanned |-> j, taken |-> j, calls |-> 2,
             arg |-> nk.key]
       ELSE IF ex.err # NoErr
       THEN [ret |-> Continue(conns[j].connected_state), data |-> ex2.data,
             key |-> nk.key, pulls |-> 1, scanned |-> j, taken |-> j, calls |-> 2,
             arg |-> nk.key]
       ELSE [ret |-> Continue(conns[i].connected_state), data |-> ex.data,
             key |-> nk.key, pulls |-> 1, scanned |-> i, taken |-> i, calls |-> 1,
             arg |-> nk.key]

\* SimpleStateImplementation::execute_next_connection on the connection list
\* conns.  The answer holds the transition result, the context afterwards and
\* what the visit did: the key pulled, how many next_key calls it made, the
\* matchers it evaluated (positions 1..scanned), the connection whose action
\* it called (0 when none), how many actions it called and the key handed to
\* the action (NoKey when none was called).
SimpleExecuteNextConnection(conns, d) ==
    LET nk == NextKey(d)
        i == FirstMatch(conns, 1, nk.key)
        ex == CallExec(conns[i].exec_function, nk.data, nk.key)
    IN IF nk.key = NoKey
       THEN [ret |-> ProcessEnded, data |-> nk.data, key |-> NoKey, pulls |-> 1,
             scanned |-> 0, taken |-> 0, calls |-> 0,
             arg |-> NoKey]
       ELSE IF i = 0
       THEN [ret |-> NotFound, data |-> nk.data, key |-> nk.key, pulls |-> 1,
             scanned |-> Len(conns), taken |-> 0, calls |-> 0,
             arg |-> NoKey]
       ELSE IF ex.err # NoErr
       THEN [ret |-> Err(ex.err), data |-> ex.data, key |-> nk.key, pulls |-> 1,
             scanned |-> i, taken |-> i, calls |-> 1,
             arg |-> nk.key]
       ELSE [ret |-> Continue(conns[i].connected_state), data |-> ex.data,
             key |-> nk.key, pulls |-> 1, scanned |-> i, taken |-> i, calls |-> 1,
             arg |-> nk.key]

\* execute_next_connection of TestNodeHello, TestNodeWorld and TestState:
\* push the state's text, then answer from next_state (or ProcessEnded).
CustomExecuteNextConnection(n, d) ==
    LET st == CustomState(n)
        d2 == AppendText(d, st.text)
    IN [ret |-> IF st.ends THEN ProcessEnded
                ELSE IF st.next_state # NoNode THEN Continue(st.next_state)
                ELSE NotFound,
        data |-> d2, key |-> NoKey, pulls |-> 0, scanned |-> 0, taken |-> 0,
        calls |-> 0,
             arg |-> NoKey]

\* Dynamic dispatch of AutomatonState::execute_next_connection.
ExecuteNextConnection(n, d) ==
    IF n \in SimpleNodes \cup AbNodes
    THEN SimpleExecuteNextConnection(next_states[n], d)
    ELSE CustomExecuteNextConnection(n, d)

\* Mutant of Classify: "no match" aborts instead of being returned.
ClassifyPanics(ret, cur) ==
    CASE ret.tag = "Err"          -> Error(ret.err)
      [] ret.tag = "Continue"     -> Undetermined
      [] ret.tag = "NotFound"     -> [tag |-> "Panic", id |-> 0, err |-> NoErr]
      [] ret.tag = "ProcessEnded" -> EmptyIter(GetIdOwned(cur))

\* Mutant of Classify: the result carries the start state's identifier.
ClassifyStartId(ret, cur) ==
    CASE ret.tag = "Err"          -> Error(ret.err)
      [] ret.tag = "Continue"     -> Undetermined
      [] ret.tag = "NotFound"     -> CouldNotFindNextState(GetIdOwned(start_state))
      [] ret.tag = "ProcessEnded" -> EmptyIter(GetIdOwned(start_state))

\* Mutant of Classify: "no match" does not end the run, the loop tries the
\* same state again.
ClassifyRetries(ret, cur) ==
    CASE ret.tag = "Err"          -> Error(ret.err)
      [] ret.tag = "Continue"     -> Undetermined
      [] ret.tag = "NotFound"     -> Undetermined
      [] ret.tag = "ProcessEnded" -> EmptyIter(GetIdOwned(cur))

\* Mutant of Classify: on the first ProcessEnded of a run the loop asks the
\* state once more.
ClassifyAsksAgain(ret, cur) ==
    CASE ret.tag = "Err"          -> Error(ret.err)
      [] ret.tag = "Continue"     -> Undetermined
      [] ret.tag = "NotFound"     -> CouldNotFindNextState(GetIdOwned(cur))
      [] ret.tag = "ProcessEnded" -> IF \E i \in DOMAIN trace : trace[i].ret.tag = "ProcessEnded"
                                     THEN EmptyIter(GetIdOwned(cur))
                                     ELSE Undetermined

\* Mutant of Classify: the engine has a step budget, a second Continue ends
\* the run.
ClassifyStepBudget(ret, cur) ==
    CASE ret.tag = "Err"          -> Error(ret.err)
      [] ret.tag = "Continue"     -> IF Len(trace) >= 1
                                     THEN CouldNotFindNextState(GetIdOwned(cur))
                                     ELSE Undetermined
      [] ret.tag = "NotFound"     -> CouldNotFindNextState(GetIdOwned(cur))
      [] ret.tag = "ProcessEnded" -> EmptyIter(GetIdOwned(cur))

\* The match of Automaton::run on a visit's answer: the run result it
\* returns (Undetermined when the loop goes on).
Classify(ret, cur) ==
    CASE ret.tag = "Err"          -> Error(ret.err)
      [] ret.tag = "Continue"     -> Undetermined
      [] ret.tag = "NotFound"     -> CouldNotFindNextState(GetIdOwned(cur))
      [] ret.tag = "ProcessEnded" -> EmptyIter(GetIdOwned(cur))

\* Mutant of NextCurrent: after a transition the loop goes back to the start
\* state.
NextCurrentToStart(ret, cur) == IF ret.tag = "Continue" THEN start_state ELSE cur

\* Mutant of NextCurrent: Continue does not move the current state.
NextCurrentStays(ret, cur) == cur

\* The state the loop goes on with.
NextCurrent(ret, cur) == IF ret.tag = "Continue" THEN ret.next ELSE cur

\* Automaton::run as a function of the graph g (the connection list of each
\* edge-list state), begun in state n on context d: the result, the context
\* it leaves and the states visited, in order.
RECURSIVE RunOn(_, _, _, _)
RunOn(g, n, d, visited) ==
    LET v == SimpleExecuteNextConnection(g[n], d)
        res == Classify(v.ret, n)
    IN IF res.tag = "None"
       THEN RunOn(g, NextCurrent(v.ret, n), v.data, Append(visited, n))
       ELSE [result |-> res, data |-> v.data, visited |-> Append(visited, n)]

\* ---------------------------------------------------------------- actions
TotalConns == Len(next_states["s1"]) + Len(next_states["s2"])

\* The context of the latest run.
data == contexts[runs]

Init ==
    /\ phase = "init"
    /\ next_states = [n \in SimpleNodes |-> <<>>]
    /\ mut_borrowed = {}
    /\ start_state = NoNode
    /\ current_state = NoNode
    /\ contexts = <<>>
    /\ result = Undetermined
    /\ runs = 0
    /\ init_calls = 0
    /\ trace = <<>>
    /\ done = <<>>

\* n.borrow_mut().register_connection(c), a statement of the graph
\* initializer: borrow_mut panics when a guard of n is alive; the guard it
\* takes is a temporary, dropped when the statement ends.
RegisterConnection(n, c) ==
    /\ phase = "init"
    /\ TotalConns < MaxConns
    /\ IF n \in mut_borrowed
       THEN phase' = "panicked" /\ UNCHANGED next_states
       ELSE /\ next_states' = [next_states EXCEPT ![n] = Append(@, c)]
            /\ UNCHANGED phase
    /\ UNCHANGED <<mut_borrowed, start_state, current_state, contexts, result,
                   runs, init_calls, trace, done>>

\* Calls of the graph initializer made by Automaton::new: f_state_graph_init()
\* in the struct expression.
InitCallsOnNew == 1

\* Mutant of InitCallsOnRun: every run builds the graph anew, as new does.
InitCallsOnRunRebuilds == InitCallsOnNew

\* Calls of the graph initializer made by Automaton::run: the engine keeps
\* the start state, not the initializer.
InitCallsOnRun == 0

\* Automaton::new: the initializer is called and returns the start state.
\* The graphs of custom states register no connection.
New(s) ==
    /\ phase = "init"
    /\ s \in CustomNodes => TotalConns = 0
    /\ phase' = "idle"
    /\ start_state' = s
    /\ init_calls' = init_calls + InitCallsOnNew
    /\ UNCHANGED <<next_states, mut_borrowed, current_state, contexts, result,
                   runs, trace, done>>

\* Mutant of AbGraph: after "ab" an 'a' leads back to the non-match state.
AbGraphForgetsA ==
    [n \in AbNodes |->
        CASE n = "non_match_state" ->
               << NewNoAction(CharMatcher(CharA, TRUE), "non_match_state"),
                  NewNoAction(CharMatcher(CharA, FALSE), "a_state") >>
          [] n = "a_state" ->
               << NewNoAction(CharMatcher(CharA, FALSE), "a_state"),
                  NewNoAction(CharMatcher(CharB, TRUE), "non_match_state"),
                  NewConnection(CharMatcher(CharB, FALSE), "add_match", "b_state") >>
          [] n = "b_state" ->
               << NewNoAction(CharMatcher(CharA, FALSE), "non_match_state"),
                  NewNoAction(CharMatcher(CharA, TRUE), "non_match_state") >>]

\* The graph the example's initializer builds: each state's connections in
\* the order of its register_connection calls.
AbGraph ==
    [n \in AbNodes |->
        CASE n = "non_match_state" ->
               << NewNoAction(CharMatcher(CharA, TRUE), "non_match_state"),
                  NewNoAction(CharMatcher(CharA, FALSE), "a_state") >>
          [] n = "a_state" ->
               << NewNoAction(CharMatcher(CharA, FALSE), "a_state"),
                  NewNoAction(CharMatcher(CharB, TRUE), "non_match_state"),
                  NewConnection(CharMatcher(CharB, FALSE), "add_match", "b_state") >>
          [] n = "b_state" ->
               << NewNoAction(CharMatcher(CharA, FALSE), "a_state"),
                  NewNoAction(CharMatcher(CharA, TRUE), "non_match_state") >>]

\* Automaton::new with the example's initializer, which returns
\* non_match_state.
NewAb ==
    /\ phase = "init"
    /\ TotalConns = 0
    /\ phase' = "idle"
    /\ next_states' = AbGraph
    /\ start_state' = "non_match_state"
    /\ init_calls' = init_calls + InitCallsOnNew
    /\ UNCHANGED <<mut_borrowed, current_state, contexts, result, runs, trace, done>>

\* Mutant of RunStart: a later run resumes from the state the previous run
\* stopped in.
RunStartResumes == IF current_state = NoNode THEN start_state ELSE current_state

\* Where run begins: let mut current_state = Rc::clone(&self.start_state).
RunStart == start_state

\* Automaton::run is called with a fresh context; a later run of the same
\* engine gets a fresh context over the same keys as the first.  The custom
\* states' context is a String: it has no key source.
Run(keys) ==
    /\ phase = "idle"
    /\ runs < MaxRuns
    /\ start_state \in CustomNodes => keys = <<>>
    /\ contexts # <<>> => keys = contexts[1].keys
    /\ phase' = "running"
    /\ runs' = runs + 1
    /\ current_state' = RunStart
    /\ contexts' = Append(contexts, NewData(keys))
    /\ result' = Undetermined
    /\ trace' = <<>>
    /\ init_calls' = init_calls + InitCallsOnRun
    /\ UNCHANGED <<next_states, mut_borrowed, start_state, done>>

\* Automaton::run is called with a fresh context whose key source never
\* signals exhaustion.
RunEndless(keys) ==
    /\ phase = "idle"
    /\ runs < MaxRuns
    /\ start_state \in SimpleNodes
    /\ keys # <<>>
    /\ contexts # <<>> => keys = contexts[1].keys
    /\ phase' = "running"
    /\ runs' = runs + 1
    /\ current_state' = RunStart
    /\ contexts' = Append(contexts, NewEndlessData(keys))
    /\ result' = Undetermined
    /\ trace' = <<>>
    /\ init_calls' = init_calls + InitCallsOnRun
    /\ UNCHANGED <<next_states, mut_borrowed, start_state, done>>

\* The shared guards alive while state n is visited: the temporary of
\* current_state.borrow() in run's loop.
SharedBorrows(n) == {n}

\* Mutant of MutBorrows: the visited state borrows the target of the
\* connection it takes mutably.
MutBorrowsTarget(n, ret) == IF ret.tag = "Continue" THEN {ret.next} ELSE {}

\* The states a visit of n answering ret borrows mutably: the engine and the
\* states' visit code call borrow_mut nowhere, the target of a connection is
\* handed on by Rc::clone.
MutBorrows(n, ret) == {}

\* The guards still alive when the visit's statement has ended: the guard of
\* current_state.borrow() is a temporary.
HeldAfterVisit(n) == {}

\* Automaton::run is called again with the context of the run before, as
\* that run left it.
RunAgain ==
    /\ phase = "idle"
    /\ runs > 0
    /\ runs < MaxRuns
    /\ phase' = "running"
    /\ runs' = runs + 1
    /\ current_state' = RunStart
    /\ contexts' = Append(contexts, data)
    /\ result' = Undetermined
    /\ trace' = <<>>
    /\ init_calls' = init_calls + InitCallsOnRun
    /\ UNCHANGED <<next_states, mut_borrowed, start_state, done>>

\* automaton.run(&mut matching_data) of the example, on a fresh
\* TextMatching over text; a later run of the engine gets a fresh one over
\* the same text.
RunAb(text) ==
    /\ phase = "idle"
    /\ runs < MaxRuns
    /\ start_state \in AbNodes
    /\ contexts # <<>> => text = contexts[1].text
    /\ phase' = "running"
    /\ runs' = runs + 1
    /\ current_state' = RunStart
    /\ contexts' = Append(contexts, NewTextMatching(text))
    /\ result' = Undetermined
    /\ trace' = <<>>
    /\ init_calls' = init_calls + InitCallsOnRun
    /\ UNCHANGED <<next_states, mut_borrowed, start_state, done>>

\* run's loop is at the head of an iteration: the run has not returned (a
\* run on an endless key source is followed for MaxVisits visits).  The
\* iteration itself never blocks.
VisitEnabled ==
    /\ phase = "running"
    /\ data.kind = "Endless" => Len(trace) < MaxVisits

\* One iteration of run's loop: current_state.borrow() (which panics when the
\* state is mutably borrowed), the visit, and the match on its answer.  A run
\* on an endless key source is followed for MaxVisits visits.
Visit ==
    /\ VisitEnabled
    /\ IF \/ current_state \in mut_borrowed
          \/ LET v == ExecuteNextConnection(current_state, data)
             IN SharedBorrows(current_state) \cap MutBorrows(current_state, v.ret) # {}
       THEN /\ phase' = "panicked"
            /\ UNCHANGED <<current_state, contexts, result, trace, done>>
       ELSE LET v == ExecuteNextConnection(current_state, data)
                res == Classify(v.ret, current_state)
                rec == [state |-> current_state, key |-> v.key, pulls |-> v.pulls,
                        scanned |-> v.scanned, taken |-> v.taken,
                        calls |-> v.calls, arg |-> v.arg, ret |-> v.ret,
                        before |-> data, after |-> v.data,
                        shared |-> SharedBorrows(current_state),
                        mutable |-> MutBorrows(current_state, v.ret),
                        held |-> HeldAfterVisit(current_state)]
            IN /\ contexts' = [contexts EXCEPT ![runs] = v.data]
               /\ current_state' = NextCurrent(v.ret, current_state)
               /\ result' = res
               /\ trace' = Append(trace, rec)
               /\ phase' = IF res.tag = "None" THEN "running" ELSE "idle"
               /\ done' = IF res.tag = "None" THEN done
                          ELSE Append(done, [result |-> res, data |-> v.data,
                                             trace |-> trace'])
    /\ UNCHANGED <<next_states, mut_borrowed, start_state, runs, init_calls>>

Next ==
    \/ \E n \in SimpleNodes, c \in Connections : RegisterConnection(n, c)
    \/ \E s \in StartNodes : New(s)
    \/ \E keys \in SeqsUpTo(Keys, MaxKeys) : Run(keys)
    \/ Visit

Spec == Init /\ [][Next]_vars

\* The engine fed with key sources that never signal exhaustion.
NextEndless ==
    \/ \E n \in SimpleNodes, c \in Connections : RegisterConnection(n, c)
    \/ \E s \in StartNodes : New(s)
    \/ \E keys \in SeqsUpTo(Keys, MaxKeys) : RunEndless(keys)
    \/ Visit

SpecEndless == Init /\ [][NextEndless]_vars

\* The engine run on a fresh context first and then again on the context
\* the run before has used.
NextReuse ==
    \/ \E n \in SimpleNodes, c \in Connections : RegisterConnection(n, c)
    \/ \E s \in StartNodes : New(s)
    \/ \E keys \in SeqsUpTo(Keys, MaxKeys) : runs = 0 /\ Run(keys)
    \/ RunAgain
    \/ Visit

SpecReuse == Init /\ [][NextReuse]_vars

\* The example of the crate documentation: the "ab" pattern automaton run on
\* texts of up to MaxText characters and on the documented text.
NextAb ==
    \/ NewAb
    \/ \E text \in SeqsUpTo(Chars, MaxText) \cup {DocText} : RunAb(text)
    \/ Visit

SpecAb == Init /\ [][NextAb]_vars

\* run's loop is synchronous code: once begun, it goes on to its next
\* iteration.
FairSpec == Spec /\ WF_vars(Visit)

\* ------------------------------------------------------- claim vocabulary
\* The latest run has returned.
Finished == phase = "idle" /\ runs > 0
\* The run walks edge-list states (their connections lead to edge-list states).
OverSimpleStates == start_state \in SimpleNodes
LastVisit == trace[Len(trace)]
RunResults ==
    {EmptyIter(i) : i \in Ids} \cup {CouldNotFindNextState(i) : i \in Ids}
        \cup {Error(e) : e \in Errors}
\* The positions of the connections of state n whose matcher accepts key k.
Accepting(n, k) == {j \in 1..Len(next_states[n]) : k \in next_states[n][j].matcher}
Earliest(S) == CHOOSE j \in S : \A m \in S : j <= m
\* The connection a visit took.
Taken(v) == next_states[v.state][v.taken]
\* What an action is documented to do to the buffer for key k.
ExpectedEffect(f, buf, k) == IF f = "append" THEN Append(buf, TextOf(k)) ELSE buf
\* The buffer after the actions of the first i visits of tr, applied in order
\* to the keys of the source ks.
RECURSIVE EffectsUpTo(_, _, _)
EffectsUpTo(tr, ks, i) ==
    IF i = 0 THEN <<>>
    ELSE LET prev == EffectsUpTo(tr, ks, i - 1)
         IN IF tr[i].taken = 0 \/ tr[i].ret.tag = "Err" THEN prev
            ELSE ExpectedEffect(Taken(tr[i]).exec_function, prev, ks[i])

\* ------------------------------------------------------------------ claims
\* C1: every invocation of run that returns produces exactly one run result,
\* which is one of EmptyIter(id), CouldNotFindNextState(id) and Error(e); no
\* outcome is a panic; and nothing (no visit, key pull or action) happens
\* after the result is produced: the finished run's trace and context are
\* those of the moment the result was produced, and only its last visit is
\* terminal.
C1_ExactlyOneResult ==
    /\ phase # "panicked"
    /\ result \in RunResults \cup {Undetermined}
    /\ phase = "running" =>
          /\ result = Undetermined
          /\ Len(done) = runs - 1
          /\ \A i \in DOMAIN trace : trace[i].ret.tag = "Continue"
    /\ phase \in {"init", "idle"} => Len(done) = runs
    /\ Finished =>
          /\ result \in RunResults
          /\ done[runs] = [result |-> result, data |-> data, trace |-> trace]
          /\ trace # <<>>
          /\ LastVisit.ret.tag \in {"Err", "NotFound", "ProcessEnded"}
          /\ \A i \in 1..(Len(trace) - 1) : trace[i].ret.tag = "Continue"

\* A second run has returned with "no match" after two visits.
C1_Witness ==
    /\ Finished /\ runs = 2 /\ OverSimpleStates
    /\ result.tag = "CouldNotFindNextState"
    /\ Len(trace) = 2

\* C2: for any state implementation the loop starts at the start state and
\* classifies each visit's answer: Err(e) gives Error(e); Continue(next) makes
\* next the current state and the loop goes on; NotFound gives
\* CouldNotFindNextState(id) and ProcessEnded gives EmptyIter(id), id being the
\* identifier of the state whose visit gave that answer.  What a custom state
\* did to the context in its final visit stays in the context.
C2_LoopClassifies ==
    /\ trace # <<>> => trace[1].state = start_state
    /\ \A i \in DOMAIN trace :
          LET v == trace[i]
          IN /\ i < Len(trace) => v.ret.tag = "Continue" /\ trace[i + 1].state = v.ret.next
             /\ i = Len(trace) =>
                   /\ data = v.after
                   /\ CASE v.ret.tag = "Continue" ->
                             phase = "running" /\ current_state = v.ret.next
                                /\ result = Undetermined
                        [] v.ret.tag = "Err" ->
                             phase = "idle" /\ result = Error(v.ret.err)
                        [] v.ret.tag = "NotFound" ->
                             phase = "idle"
                                /\ result = CouldNotFindNextState(GetIdOwned(v.state))
                        [] v.ret.tag = "ProcessEnded" ->
                             phase = "idle" /\ result = EmptyIter(GetIdOwned(v.state))
             /\ v.state \in CustomNodes =>
                   v.after.buffer = Append(v.before.buffer, CustomState(v.state).text)

\* The run of automaton_2_nodes_works: Hello, then World ends the process.
C2_Witness ==
    /\ Finished /\ start_state = "hello"
    /\ result = EmptyIter(2)
    /\ data.buffer = <<"Hello", " world">>

\* C3 (exhaustion): over edge-list states, when every pulled key is matched
\* by the state visited at that moment and every action succeeds, run returns
\* EmptyIter(id) with the identifier of the last visited state, which is the
\* target of the last connection taken (the start state when the source was
\* empty from the start); every key was pulled and the buffer holds the
\* effects of all taken actions in key order.
C3_Exhaustion ==
    (/\ Finished /\ OverSimpleStates
     /\ \A i \in DOMAIN trace :
           trace[i].key # NoKey =>
              /\ Accepting(trace[i].state, trace[i].key) # {}
              /\ next_states[trace[i].state][Earliest(Accepting(trace[i].state,
                    trace[i].key))].exec_function # "fail")
    => LET n == Len(trace)
           lastState == IF n = 1 THEN start_state
                        ELSE Taken(trace[n - 1]).connected_state
       IN /\ n = Len(data.keys) + 1
          /\ LastVisit.state = lastState
          /\ result = EmptyIter(GetIdOwned(lastState))
          /\ data.current = Len(data.keys)
          /\ data.buffer = EffectsUpTo(trace, data.keys, n - 1)

\* Two keys were matched, the second connection closing the cycle s1 -> s2 ->
\* s1, and both actions appended.
C3_Witness ==
    /\ Finished /\ OverSimpleStates
    /\ Len(trace) = 3 /\ trace[2].state = "s2"
    /\ result = EmptyIter(1)
    /\ data.buffer = <<"Hello", "world!">>

\* C4 (no match): when the visited edge-list state has no connection whose
\* matcher accepts the next available key (zero connections included), run
\* returns CouldNotFindNextState(id) with that state's identifier, no action
\* runs in that visit, and the buffer holds the effects of the transitions
\* taken before it and nothing else.
C4_NoMatch ==
    \A i \in DOMAIN trace :
       LET v == trace[i]
       IN (/\ OverSimpleStates
           /\ i <= Len(data.keys)
           /\ Accepting(v.state, data.keys[i]) = {})
          => /\ i = Len(trace)
             /\ phase = "idle"
             /\ result = CouldNotFindNextState(SimpleId(v.state))
             /\ v.taken = 0 /\ v.calls = 0
             /\ data.buffer = v.before.buffer
             /\ data.buffer = EffectsUpTo(trace, data.keys, i - 1)
             /\ \A j \in 1..(i - 1) : trace[j].taken # 0

\* After one transition that appended, state s2 matched nothing.
C4_Witness ==
    /\ Finished /\ OverSimpleStates
    /\ Len(trace) = 2
    /\ result = CouldNotFindNextState(2)
    /\ data.buffer = <<"Hello">>

\* C5 (fail fast): when the action of the Nth taken transition returns an
\* error e, run returns Error(e) with exactly that value, the N-1 earlier
\* actions (and only they) are committed to the context, and the run visits
\* no further state: the failing visit is the last and the current state is
\* not advanced.
C5_FailFast ==
    \A i \in DOMAIN trace :
       LET v == trace[i]
       IN (/\ OverSimpleStates
           /\ i <= Len(data.keys)
           /\ Accepting(v.state, data.keys[i]) # {}
           /\ next_states[v.state][Earliest(Accepting(v.state, data.keys[i]))]
                 .exec_function = "fail")
          => /\ i = Len(trace)
             /\ phase = "idle"
             /\ result = Error(ErrOf(data.keys[i]))
             /\ \A j \in 1..(i - 1) : trace[j].calls = 1 /\ trace[j].ret.tag = "Continue"
             /\ data.buffer = EffectsUpTo(trace, data.keys, i - 1)
             /\ data.buffer = v.before.buffer
             /\ current_state = v.state

\* The second transition's action failed on key 2 after the first appended.
C5_Witness ==
    /\ Finished /\ OverSimpleStates
    /\ Len(trace) = 2
    /\ result = Error("e2")
    /\ data.buffer = <<"Hello">>

\* C6 (first match): when two or more connections of the visited edge-list
\* state accept the pulled key, the one registered earliest is the one whose
\* action runs (and the only one) and whose target becomes the next state.
C6_FirstMatch ==
    \A i \in DOMAIN trace :
       LET v == trace[i]
       IN (/\ OverSimpleStates
           /\ i <= Len(data.keys)
           /\ Cardinality(Accepting(v.state, data.keys[i])) >= 2)
          => LET e == Earliest(Accepting(v.state, data.keys[i]))
                 c == next_states[v.state][e]
             IN /\ v.taken = e /\ v.calls = 1 /\ v.scanned = e
                /\ v.after.buffer =
                      ExpectedEffect(c.exec_function, v.before.buffer, data.keys[i])
                /\ IF c.exec_function = "fail"
                   THEN v.ret = Err(ErrOf(data.keys[i]))
                   ELSE /\ v.ret = Continue(c.connected_state)
                        /\ i < Len(trace) => trace[i + 1].state = c.connected_state
                        /\ i = Len(trace) => current_state = c.connected_state

\* Key 1 met a connection accepting every key registered before the more
\* specific one: the earlier one's action and target were used.
C6_Witness ==
    /\ OverSimpleStates /\ trace # <<>>
    /\ Len(next_states["s1"]) = 2
    /\ next_states["s1"][1] = NewConnection(Keys, "append", "s1")
    /\ next_states["s1"][2] = NewConnection({1}, DoNothingFn, "s2")
    /\ trace[1].key = 1 /\ trace[1].taken = 1
    /\ current_state = "s1" /\ data.buffer = <<"Hello">>

\* A state whose first connection accepts every key and targets the state.
SelfLoop(n) ==
    /\ n \in SimpleNodes
    /\ next_states[n] # <<>>
    /\ next_states[n][1].matcher = Keys
    /\ next_states[n][1].connected_state = n

\* C7 (self-loop): a state whose first connection matches every key and
\* targets the state itself makes one key pull per visit, consuming exactly
\* one key in every visit that finds one; it stays the current state after
\* every successful visit; and it stops only on exhaustion (EmptyIter with
\* its identifier) or on an action error (Error), never with
\* CouldNotFindNextState.
C7_SelfLoop ==
    \A i \in DOMAIN trace :
       LET v == trace[i]
       IN SelfLoop(v.state)
          => /\ v.pulls = 1
             /\ v.ret.tag # "NotFound"
             /\ v.key # NoKey =>
                   /\ v.key = data.keys[i]
                   /\ v.before.current = i - 1
                   /\ v.after.current = i
             /\ v.ret.tag = "Continue" =>
                   /\ v.ret.next = v.state
                   /\ i = Len(trace) => current_state = v.state /\ phase = "running"
                   /\ i < Len(trace) => trace[i + 1].state = v.state
             /\ v.ret.tag = "ProcessEnded" =>
                   /\ v.before.current = Len(data.keys)
                   /\ result = EmptyIter(SimpleId(v.state))
             /\ v.ret.tag = "Err" =>
                   /\ next_states[v.state][1].exec_function = "fail"
                   /\ result = Error(ErrOf(v.key))

\* The self-looping start state consumed two keys and stopped on exhaustion.
C7_Witness ==
    /\ Finished /\ SelfLoop("s1") /\ start_state = "s1"
    /\ Len(trace) = 3
    /\ result = EmptyIter(1)
    /\ data.current = 2

\* C8 (re-run): every run of the engine starts at the configured start
\* state, whatever state the previous run ended in; a later run on a fresh
\* context over the same keys returns the same result, visits the same states
\* and leaves the same context as the first run of the engine did; and the
\* context of a finished run is not touched by the runs that follow.
C8_Rerun ==
    /\ trace # <<>> => trace[1].state = start_state
    /\ \A j \in DOMAIN done :
          /\ done[j].trace[1].state = start_state
          /\ contexts[j].keys = contexts[1].keys
          /\ done[j].result = done[1].result
          /\ done[j].data = done[1].data
          /\ Len(done[j].trace) = Len(done[1].trace)
          /\ \A i \in DOMAIN done[j].trace :
                done[j].trace[i].state = done[1].trace[i].state
          /\ contexts[j] = done[j].data

\* Two runs have returned; the first ended in s2, not in the start state,
\* after appending to its buffer.
C8_Witness ==
    /\ Finished /\ Len(done) = 2 /\ start_state = "s1"
    /\ done[1].trace[Len(done[1].trace)].state = "s2"
    /\ done[1].data.buffer # <<>>

C10_OneKeyOneActionNoRetry ==
    (OverSimpleStates /\ runs > 0) =>
    /\ Len(trace) <= Len(data.keys) + 1
    /\ \A i \in DOMAIN trace :
          LET v == trace[i]
          IN /\ v.pulls = 1
             /\ v.calls <= 1
             /\ Len(v.after.buffer) <= Len(v.before.buffer) + 1
             /\ v.before.current = i - 1
             /\ IF i <= Len(data.keys)
                THEN v.key = data.keys[i] /\ v.after.current = i
                ELSE v.key = NoKey /\ v.after.current = i - 1
             /\ i < Len(trace) => v.ret.tag = "Continue"
             /\ v.ret.tag # "Continue" => i = Len(trace) /\ phase = "idle"
    /\ Finished => done[runs].trace = trace /\ LastVisit.ret.tag # "Continue"

\* A run took one transition and ended with "no match" on the second key.
C10_Witness ==
    /\ Finished /\ OverSimpleStates
    /\ Len(trace) = 2
    /\ trace[1].calls = 1
    /\ LastVisit.ret.tag = "NotFound"
    /\ data.current = 2

\* The graph g with every connection built by new_no_action replaced by one
\* built by new with the caller's no-op closure.
WithNoopOk(g) ==
    [n \in DOMAIN g |->
        [j \in DOMAIN g[n] |->
            IF g[n][j].exec_function = DoNothingFn
            THEN NewConnection(g[n][j].matcher, NoopOkFn, g[n][j].connected_state)
            ELSE g[n][j]]]

\* C11: a connection built with new_no_action behaves as one built with new
\* and a no-op action that always succeeds: with every no-action connection
\* of the graph replaced, a run over the same keys visits the same states,
\* returns the same result and leaves the same context; and the action of a
\* no-action connection leaves the context as the key pull left it and never
\* gives an error.
C11_NoActionIsNoopOk ==
    /\ (Finished /\ OverSimpleStates) =>
          LET twin == RunOn(WithNoopOk(next_states), start_state,
                            NewData(data.keys), <<>>)
          IN /\ twin.result = result
             /\ twin.data = data
             /\ twin.visited = [i \in DOMAIN trace |-> trace[i].state]
    /\ OverSimpleStates =>
          \A i \in DOMAIN trace :
             LET v == trace[i]
             IN (v.taken # 0 /\ Taken(v) = NewNoAction(Taken(v).matcher,
                                                       Taken(v).connected_state))
                => /\ v.after.buffer = v.before.buffer
                   /\ v.after.keys = v.before.keys
                   /\ v.ret = Continue(Taken(v).connected_state)

\* A run took a no-action connection and then an appending one before its
\* key source was exhausted.
C11_Witness ==
    /\ Finished /\ OverSimpleStates
    /\ Len(trace) = 3
    /\ Taken(trace[1]).exec_function = DoNothingFn
    /\ Taken(trace[2]).exec_function = "append"
    /\ result.tag = "EmptyIter"
    /\ WithNoopOk(next_states) # next_states

\* C12 (termination): with a finite key source of n keys and edge-list
\* states only, a run never makes more than n+1 visits, whatever cycles or
\* self-loops the graph has, and it returns: while the run goes on its next
\* visit is possible, every visit but the last consumes one of the n keys,
\* and the visit that finds the source exhausted ends the run.
C12_Termination ==
    (OverSimpleStates /\ runs > 0) =>
       /\ Len(trace) <= Len(data.keys) + 1
       /\ phase = "running" =>
             /\ VisitEnabled
             /\ Len(trace) <= Len(data.keys)
             /\ data.current = Len(trace)
       /\ \A i \in DOMAIN trace :
             /\ trace[i].after.current <= Len(data.keys)
             /\ i < Len(trace) => trace[i].after.current = trace[i].before.current + 1
             /\ trace[i].key = NoKey => i = Len(trace) /\ phase = "idle"
       /\ phase \in {"running", "idle"}

\* The same as a liveness property, under FairSpec: a run that has begun
\* returns.
C12_Returns == (phase = "running") ~> (phase = "idle")

\* A run over a self-loop returned after n+1 = 3 visits of the same state.
C12_Witness ==
    /\ Finished /\ OverSimpleStates
    /\ Len(data.keys) = 2 /\ Len(trace) = 3
    /\ \A i \in DOMAIN trace : trace[i].state = "s1"

\* A state whose first connection accepts every key, targets the state and
\* has an action that always succeeds.
AlwaysSelfLoop(n) == SelfLoop(n) /\ next_states[n][1].exec_function # "fail"

\* C13: the engine has no step budget and no cycle detection.  Once a run
\* fed by a key source that never signals exhaustion is at a state that
\* always matches, targets itself and whose action succeeds, the run never
\* returns: no result is produced, the state stays current, and another
\* visit is always possible, each one adding to the visits made.
C13_NeverReturns ==
    (/\ runs > 0 /\ data.kind = "Endless"
     /\ \/ phase = "running" /\ AlwaysSelfLoop(current_state)
        \/ \E i \in DOMAIN trace : AlwaysSelfLoop(trace[i].state))
    => /\ phase = "running"
       /\ result = Undetermined
       /\ Len(done) = runs - 1
       /\ AlwaysSelfLoop(current_state)
       /\ data.current = Len(trace)
       /\ \A i \in DOMAIN trace : trace[i].ret.tag = "Continue"
       /\ Len(trace) < MaxVisits => VisitEnabled

\* The run has visited the self-looping start state as many times as it was
\* followed, and is still running.
C13_Witness ==
    /\ runs > 0 /\ data.kind = "Endless"
    /\ AlwaysSelfLoop(start_state)
    /\ Len(trace) >= 3
    /\ \A i \in DOMAIN trace : trace[i].state = start_state
    /\ phase = "running"

\* C14: the graph initializer is invoked exactly once per engine
\* construction, inside Automaton::new, and never by run, however many
\* times run is called; the start state it returned is where every run
\* makes its first visit.
C14_InitializerOnce ==
    /\ phase = "init" => init_calls = 0 /\ runs = 0
    /\ phase # "init" =>
          /\ init_calls = 1
          /\ start_state \in StartNodes
          /\ \A r \in DOMAIN done : done[r].trace[1].state = start_state
          /\ phase = "running" =>
                IF trace = <<>> THEN current_state = start_state
                ELSE trace[1].state = start_state

\* Two runs of one engine are over, the first of them ended in another
\* state than the start state, and the initializer was called once.
C14_Witness ==
    /\ runs = 2 /\ Len(done) = 2 /\ phase = "idle"
    /\ init_calls = 1
    /\ done[1].trace[Len(done[1].trace)].state # start_state
    /\ done[2].trace[1].state = start_state

\* How many of the three result predicates hold of r.
PredicatesTrue(r) ==
    Cardinality({p \in {"empty_iter", "not_found", "error"} :
                    CASE p = "empty_iter" -> IsEmptyIter(r)
                      [] p = "not_found"  -> IsCouldNotFindNextState(r)
                      [] p = "error"      -> IsError(r)})

\* C15: the three result predicates partition the run results: of every
\* AutomatonResult exactly one of is_empty_iter, is_could_not_find_next_state
\* and is_error is true, and it is true exactly of the EmptyIter,
\* CouldNotFindNextState and Error variant respectively; so the predicate
\* true of a run's result tells how the run's last visit ended.
C15_PredicatesPartition ==
    /\ \A r \in RunResults :
          /\ PredicatesTrue(r) = 1
          /\ IsEmptyIter(r) <=> \E i \in Ids : r = EmptyIter(i)
          /\ IsCouldNotFindNextState(r) <=> \E i \in Ids : r = CouldNotFindNextState(i)
          /\ IsError(r) <=> \E e \in Errors : r = Error(e)
    /\ \A n \in DOMAIN done :
          LET r == done[n].result
              last == done[n].trace[Len(done[n].trace)].ret.tag
          IN /\ r \in RunResults
             /\ PredicatesTrue(r) = 1
             /\ IsEmptyIter(r) <=> last = "ProcessEnded"
             /\ IsCouldNotFindNextState(r) <=> last = "NotFound"
             /\ IsError(r) <=> last = "Err"

\* A run has ended in an action's error after an earlier visit: is_error
\* alone is true of its result.
C15_Witness ==
    /\ Finished /\ Len(trace) = 2
    /\ LastVisit.ret.tag = "Err"
    /\ IsError(result) /\ ~IsEmptyIter(result) /\ ~IsCouldNotFindNextState(result)

\* C16: when the action of the first matching connection fails, the
\* edge-list state propagates the error at once: of the connections
\* registered after the failing one neither matcher nor action is evaluated
\* for that key, the visit does not answer Continue, and the engine's current
\* state does not advance to the failing connection's target.
C16_ErrorPropagatesAtOnce ==
    (OverSimpleStates /\ runs > 0) =>
       \A i \in DOMAIN trace :
          LET v == trace[i]
              acc == Accepting(v.state, v.key)
          IN (/\ v.key # NoKey
              /\ acc # {}
              /\ next_states[v.state][Earliest(acc)].exec_function = "fail")
             => /\ v.ret = Err(ErrOf(v.key))
                /\ v.taken = Earliest(acc)
                /\ v.scanned = v.taken
                /\ v.calls = 1
                /\ v.after.buffer = v.before.buffer
                /\ i = Len(trace)
                /\ current_state = v.state
                /\ phase = "idle"

\* The first of two connections accepting the key failed; it leads to the
\* other state, which did not become current, and the second was not tried.
C16_Witness ==
    /\ Finished /\ OverSimpleStates
    /\ LastVisit.ret.tag = "Err"
    /\ LastVisit.taken = 1
    /\ Len(next_states[LastVisit.state]) = 2
    /\ LastVisit.key \in next_states[LastVisit.state][2].matcher
    /\ next_states[LastVisit.state][2].exec_function = "append"
    /\ next_states[LastVisit.state][1].connected_state # LastVisit.state
    /\ current_state = LastVisit.state

\* C17: during a run the engine and the states take only shared borrows of
\* state nodes, never a mutable one, and the borrow of the current state is
\* released before the next visit begins; hence self-loops, cycles and
\* states with several incoming edges never produce a borrow conflict (no
\* run panics), and the connection list of every state is the same after
\* the run as before it (no step after construction changes it).
C17_SharedBorrowsOnly ==
    /\ [](/\ phase # "panicked"
          /\ mut_borrowed = {}
          /\ \A i \in DOMAIN trace :
                /\ trace[i].shared = {trace[i].state}
                /\ trace[i].mutable = {}
                /\ trace[i].held = {})
    /\ [][phase # "init" => next_states' = next_states /\ mut_borrowed' = {}]_vars

\* A run over a cycle with a self-loop has ended: s1 was visited on its
\* self-loop, then left for s2, which has two incoming edges.
C17_Witness ==
    /\ Finished /\ OverSimpleStates
    /\ Len(trace) = 3
    /\ trace[1].state = "s1" /\ trace[1].ret = Continue("s1")
    /\ trace[2].state = "s1" /\ trace[2].ret = Continue("s2")
    /\ trace[3].state = "s2"

\* The keys the run has pulled so far, in order.
PulledKeys == SelectSeq([j \in DOMAIN trace |-> trace[j].key], LAMBDA k : k # NoKey)

\* Of the first n keys of ks, the indices of those whose char is 'b' and
\* whose immediately preceding key has char 'a', in increasing order.
RECURSIVE IndicesOfAb(_, _)
IndicesOfAb(ks, n) ==
    IF n = 0 THEN <<>>
    ELSE IF n > 1 /\ KeyChar(ks[n]) = CharB /\ KeyChar(ks[n - 1]) = CharA
    THEN Append(IndicesOfAb(ks, n - 1), KeyIndex(ks[n]))
    ELSE IndicesOfAb(ks, n - 1)

\* C18: for the documented "ab" pattern automaton and every key sequence
\* of (index, char) pairs, the recorded matches are exactly the indices of
\* the keys whose char is 'b' and whose immediately preceding key has char
\* 'a', in increasing order; for the documented input they are 1, 9, 11.
\* (The keys of a text are the pairs of index i and the character after
\* position i.)
C18_AbMatches ==
    (runs > 0 /\ start_state \in AbNodes) =>
       /\ data.matches = IndicesOfAb(PulledKeys, Len(PulledKeys))
       /\ \A j \in DOMAIN PulledKeys : PulledKeys[j] = Key(j - 1, data.text[j + 1])
       /\ Finished =>
             /\ Len(PulledKeys) = IF data.text = <<>> THEN 0 ELSE Len(data.text) - 1
             /\ data.text = DocText => data.matches = <<1, 9, 11>>

\* The run on the documented text is over with its three matches.
C18_Witness ==
    /\ Finished /\ start_state \in AbNodes
    /\ data.text = DocText
    /\ data.matches = <<1, 9, 11>>
    /\ Len(trace) = Len(DocText)

\* C19: the documented "ab" pattern automaton is total: in each of its
\* three states the registered matchers together accept every key, so for
\* every key sequence the run ends with EmptyIter, never with
\* CouldNotFindNextState or Error.
C19_AbTotal ==
    (phase # "init" /\ start_state \in AbNodes) =>
       /\ \A n \in AbNodes, k \in AbKeys : Accepting(n, k) # {}
       /\ \A i \in DOMAIN trace : trace[i].ret.tag \in {"Continue", "ProcessEnded"}
       /\ Finished =>
             /\ IsEmptyIter(result)
             /\ ~IsCouldNotFindNextState(result) /\ ~IsError(result)
             /\ result = EmptyIter(AbId(current_state))

\* A run that went through all three states has ended with EmptyIter.
C19_Witness ==
    /\ Finished /\ start_state \in AbNodes
    /\ {trace[i].state : i \in DOMAIN trace} = AbNodes
    /\ \E i \in DOMAIN trace : KeyChar(trace[i].key) = CharOther
    /\ IsEmptyIter(result)

\* The visits of run r.
TraceOf(r) == IF r <= Len(done) THEN done[r].trace ELSE trace

\* C20: a key pulled from the context is never returned to it: when a
\* visit ends in NotFound or in an action error, the key it pulled has been
\* consumed, so the context's key position after the run is one past the key
\* that failed to match (or whose action failed), and a later run on the
\* same context starts with the following key (or finds the source
\* exhausted when there is none).
C20_PulledKeyIsConsumed ==
    OverSimpleStates =>
       \A r \in DOMAIN done :
          LET tr == done[r].trace
              v == tr[Len(tr)]
              d == done[r].data
          IN v.ret.tag \in {"NotFound", "Err"} =>
                /\ v.key # NoKey
                /\ v.key = d.keys[v.before.current + 1]
                /\ v.after.current = v.before.current + 1
                /\ d.current = v.before.current + 1
                /\ (r < runs /\ TraceOf(r + 1) # <<>>) =>
                      LET w == TraceOf(r + 1)[1]
                      IN /\ w.before = d
                         /\ w.state = start_state
                         /\ w.key = IF d.current < Len(d.keys)
                                    THEN d.keys[d.current + 1] ELSE NoKey

\* The first run stopped on its first key, which no connection accepted;
\* the second run on the same context began with the second key.
C20_Witness ==
    /\ OverSimpleStates
    /\ Len(done) = 2
    /\ Len(done[1].data.keys) = 2
    /\ Len(done[1].trace) = 1
    /\ done[1].trace[1].ret.tag = "NotFound"
    /\ done[1].trace[1].key = done[1].data.keys[1]
    /\ done[2].trace[1].key = done[1].data.keys[2]
    /\ done[2].trace[1].before.current = 1

\* The keys handed to the actions the run has invoked so far, in order.
ActionArgs ==
    LET acting == SelectSeq(trace, LAMBDA v : v.calls > 0)
    IN [j \in DOMAIN acting |-> acting[j].arg]

\* The actions the run has invoked so far.
RECURSIVE CallsUpTo(_, _)
CallsUpTo(tr, i) == IF i = 0 THEN 0 ELSE CallsUpTo(tr, i - 1) + tr[i].calls

\* C21: in a run over edge-list states, keys are processed in source order
\* with one action per matched key: the i-th action invoked receives the
\* i-th key pulled from the context (which is the i-th key of the source),
\* the actions invoked are never more than the keys pulled, and when the run
\* ends with EmptyIter the actions invoked are as many as the keys the
\* source yielded.
C21_KeysInSourceOrder ==
    (OverSimpleStates /\ runs > 0) =>
       /\ \A i \in DOMAIN trace : trace[i].calls <= 1
       /\ CallsUpTo(trace, Len(trace)) = Len(ActionArgs)
       /\ Len(ActionArgs) <= Len(PulledKeys)
       /\ \A i \in DOMAIN PulledKeys : PulledKeys[i] = data.keys[i]
       /\ \A i \in DOMAIN ActionArgs :
             /\ ActionArgs[i] = PulledKeys[i]
             /\ trace[i].calls = 1 /\ trace[i].arg = trace[i].key
             /\ Taken(trace[i]).exec_function = "append" =>
                   trace[i].after.buffer = Append(trace[i].before.buffer, TextOf(data.keys[i]))
       /\ (Finished /\ IsEmptyIter(result)) =>
             /\ Len(ActionArgs) = Len(data.keys)
             /\ Len(PulledKeys) = Len(data.keys)

\* A run over the keys 2, 1 has ended with EmptyIter after two appending
\* actions, the first of them on the second connection of its state.
C21_Witness ==
    /\ Finished /\ OverSimpleStates
    /\ IsEmptyIter(result)
    /\ data.keys = <<2, 1>>
    /\ ActionArgs = <<2, 1>>
    /\ data.buffer = <<TextOf(2), TextOf(1)>>

\* State n has a connection to state m whose matcher accepts key k.
Edge(n, k, m) ==
    \E j \in 1..Len(next_states[n]) :
       /\ next_states[n][j].connected_state = m
       /\ k \in next_states[n][j].matcher

\* C22: the states visited in a run are a path of the graph that begins at
\* the start state: every visited state after the first is the target of a
\* connection registered on the state visited immediately before it, whose
\* matcher accepted the key pulled in that previous visit (it is the
\* connection that visit took); the same holds of the state the run is
\* about to visit.
C22_VisitedStatesArePath ==
    (OverSimpleStates /\ runs > 0) =>
       /\ trace # <<>> => trace[1].state = start_state
       /\ \A i \in DOMAIN trace :
             i > 1 =>
                /\ trace[i - 1].key # NoKey
                /\ Edge(trace[i - 1].state, trace[i - 1].key, trace[i].state)
                /\ trace[i - 1].taken > 0
                /\ Taken(trace[i - 1]).connected_state = trace[i].state
                /\ trace[i - 1].key \in Taken(trace[i - 1]).matcher
       /\ (phase = "running" /\ trace # <<>>) =>
             /\ LastVisit.taken > 0
             /\ current_state = Taken(LastVisit).connected_state
             /\ Edge(LastVisit.state, LastVisit.key, current_state)

\* A run went from s1 to s2 and back to s1, along connections that accept
\* the keys pulled; s1 has no connection to itself.
C22_Witness ==
    /\ Finished /\ OverSimpleStates
    /\ Len(trace) = 3
    /\ trace[1].state = "s1" /\ trace[2].state = "s2" /\ trace[3].state = "s1"
    /\ \A j \in 1..Len(next_states["s1"]) : next_states["s1"][j].connected_state = "s2"

\* The visits of the run in which next_key answered none.
NoneAnswers == {i \in DOMAIN trace : trace[i].pulls > 0 /\ trace[i].key = NoKey}

\* C23: within one run the key source is never queried again after it has
\* signalled exhaustion: a run over edge-list states calls next_key exactly
\* once per visit, the first call that answers none is in the run's last
\* visit and ends the run with EmptyIter, so at most one call of a run is
\* answered none.
C23_NoQueryAfterExhaustion ==
    (OverSimpleStates /\ runs > 0) =>
       /\ \A i \in DOMAIN trace : trace[i].pulls = 1
       /\ Cardinality(NoneAnswers) <= 1
       /\ \A i \in NoneAnswers :
             /\ i = Len(trace)
             /\ trace[i].before.current = Len(data.keys)
             /\ trace[i].ret = ProcessEnded
             /\ phase = "idle"
             /\ result = EmptyIter(GetIdOwned(trace[i].state))
       /\ \A r \in DOMAIN done :
             \A i \in DOMAIN done[r].trace :
                done[r].trace[i].key = NoKey =>
                   i = Len(done[r].trace) /\ IsEmptyIter(done[r].result)

\* A run over two keys has ended: three visits, three next_key calls, the
\* last of them answered none.
C23_Witness ==
    /\ Finished /\ OverSimpleStates
    /\ Len(data.keys) = 2 /\ Len(trace) = 3
    /\ NoneAnswers = {3}
    /\ trace[1].state # trace[2].state
    /\ IsEmptyIter(result)

====
